---------------------------- MODULE Spec2Model ----------------------------
(***************************************************************************)
(* A model of the compliance automation skill:                             *)
(*   skills/compliance-automation/intelligent-scanner.py                   *)
(*       IntelligentComplianceScanner (scan, auto-remediation, report)     *)
(*   skills/compliance-automation/decision-engine.py                       *)
(*       DecisionEngine (history, priority, prediction, planning)          *)
(*                                                                         *)
(* Text (image references, file paths, error types) is a sequence of       *)
(* one-character strings, so that substring search, str.replace and        *)
(* re.match are computed rather than assumed.                              *)
(***************************************************************************)
EXTENDS Integers, Sequences, FiniteSets, TLC

(***************************************************************************)
(* Bounds of the model.                                                    *)
(***************************************************************************)
MaxDocs == 2        \* documents per manifest file
MaxBatch == 2       \* violations handed to one auto_remediate call
MaxRecords == 2     \* record_outcome calls per engine
MaxHist == 4        \* records of a history file that exists before the run
MaxPlan == 2        \* issues handed to one recommend_remediation_strategy call
MaxFiles == 3       \* paths handed to one predict_blockers call
MaxViolations == 5  \* violations handed to one _calculate_compliance_score call

(***************************************************************************)
(* Python str operations on character sequences.                           *)
(***************************************************************************)
\* s[i:i+len(sub)] == sub   (i is 1-based)
StartsWithAt(s, sub, i) ==
    /\ i >= 1
    /\ i + Len(sub) - 1 <= Len(s)
    /\ \A k \in 1..Len(sub) : s[i + k - 1] = sub[k]

\* sub in s
Contains(s, sub) == \E i \in 1..(Len(s) - Len(sub) + 1) : StartsWithAt(s, sub, i)

\* s.endswith(suf)
EndsWith(s, suf) ==
    /\ Len(suf) <= Len(s)
    /\ StartsWithAt(s, suf, Len(s) - Len(suf) + 1)

RECURSIVE ReplaceFrom(_, _, _, _)
\* s[i-1:].replace(old, new) for a non-empty old: leftmost, non-overlapping
ReplaceFrom(s, old, new, i) ==
    IF i > Len(s) THEN << >>
    ELSE IF StartsWithAt(s, old, i)
         THEN new \o ReplaceFrom(s, old, new, i + Len(old))
         ELSE <<s[i]>> \o ReplaceFrom(s, old, new, i + 1)

RECURSIVE Interleave(_, _, _)
\* "".join(new + c for c in s[i-1:]) + new: what replace does for an empty old
Interleave(s, new, i) ==
    IF i > Len(s) THEN new
    ELSE new \o <<s[i]>> \o Interleave(s, new, i + 1)

\* s.replace(old, new)
Replace(s, old, new) ==
    IF Len(old) = 0 THEN Interleave(s, new, 1) ELSE ReplaceFrom(s, old, new, 1)

(***************************************************************************)
(* re.match(pattern, s): the pattern matches a prefix of s.  A pattern is  *)
(* a sequence of literal characters, "." (any character) and "*" (zero or  *)
(* more of the preceding atom).                                            *)
(***************************************************************************)
AtomMatch(a, c) == a = "." \/ a = c

RECURSIVE MatchAt(_, _, _, _)
MatchAt(p, i, s, j) ==
    IF i > Len(p) THEN TRUE
    ELSE IF i + 1 <= Len(p) /\ p[i + 1] = "*"
         THEN \E k \in 0..(Len(s) - j + 1) :
                 /\ \A m \in 0..(k - 1) : AtomMatch(p[i], s[j + m])
                 /\ MatchAt(p, i + 2, s, j + k)
         ELSE /\ j <= Len(s)
              /\ AtomMatch(p[i], s[j])
              /\ MatchAt(p, i + 1, s, j + 1)

ReMatch(pattern, s) == MatchAt(pattern, 1, s, 1)


(***************************************************************************)
(* Rule catalog.  A rule set has the three families of                     *)
(* load_intelligence_rules: image_replacement (pattern -> rule, in dict    *)
(* order), namespace_labeling.required_labels, security_context.auto_fixes *)
(* (setting -> expected value, in dict order).  hasJustification says      *)
(* whether the rule dict carries the 'justification' key.                  *)
(***************************************************************************)
BusyboxLatest ==
    <<"b","u","s","y","b","o","x",":","l","a","t","e","s","t">>

BusyboxSecure ==
    <<"g","h","c","r",".","i","o","/","s","e","c","u","r","e","-","b","a","s",
      "e","l","i","n","e","/","b","u","s","y","b","o","x",":","1",".","3","6",
      "-","s","e","c","u","r","e">>

\* _get_fallback_rules
FallbackRules ==
    [ image_replacement |->
        << [ pattern |-> BusyboxLatest, target |-> BusyboxSecure,
             risk |-> "critical", remediation |-> "auto",
             hasJustification |-> FALSE ] >>,
      required_labels |-> <<"team", "environment", "lifecycle">>,
      auto_fixes |-> << [ key |-> "runAsNonRoot", expected |-> "true" ],
                        [ key |-> "allowPrivilegeEscalation", expected |-> "false" ] >> ]

\* Image references used by the manifests of the model.
ImgNg == <<"n","g">>              \* an image the catalog replaces automatically
ImgNgPinned == <<"n","g",":","1">> \* its replacement (it contains the old reference)
ImgNx == <<"n","x">>              \* an image the catalog flags for manual review
ImgOk == <<"o","k">>              \* an image no rule matches

\* The content of policy-intelligence-rules.yaml when it can be loaded: the
\* three json blocks of its data section, decoded.
CatalogRules ==
    [ image_replacement |->
        << [ pattern |-> <<"n","g">>, target |-> ImgNgPinned,
             risk |-> "high", remediation |-> "auto",
             hasJustification |-> TRUE ],
           [ pattern |-> <<"n",".","*">>, target |-> ImgOk,
             risk |-> "medium", remediation |-> "manual",
             hasJustification |-> TRUE ] >>,
      required_labels |-> <<"team", "environment", "lifecycle">>,
      auto_fixes |-> << [ key |-> "runAsNonRoot", expected |-> "true" ],
                        [ key |-> "allowPrivilegeEscalation", expected |-> "false" ] >> ]

RuleSources == {"missing", "catalog"}

\* load_intelligence_rules: any failure to read or decode the source falls
\* back to the built-in rules.
LoadRules(src) == IF src = "catalog" THEN CatalogRules ELSE FallbackRules

(***************************************************************************)
(* Manifests.  A document is what yaml.safe_load_all yields:               *)
(*   empty      the document is None (skipped by `if manifest`)            *)
(*   kind       manifest.get('kind')                                       *)
(*   labels     keys of metadata.labels                                    *)
(*   blank      the keys of metadata.labels whose value is the empty text  *)
(*   template   'spec' in manifest and 'template' in manifest['spec']      *)
(*   containers manifest['spec']['template']['spec']['containers']         *)
(* A container has an optional image and a securityContext mapping each    *)
(* setting to "true", "false" or "unset" (the key is absent: get -> None). *)
(* A file is its documents plus torn: the text ends inside a document, so  *)
(* the yaml parser raises.                                                 *)
(***************************************************************************)
SettingNames == {"runAsNonRoot", "allowPrivilegeEscalation"}

Container(img, nonRoot, escalation) ==
    [ hasImage |-> TRUE, image |-> img,
      sc |-> [ k \in SettingNames |->
                 IF k = "runAsNonRoot" THEN nonRoot ELSE escalation ] ]

\* a container without the 'image' key: container['image'] raises KeyError
ContainerNoImage ==
    [ hasImage |-> FALSE, image |-> << >>,
      sc |-> [ k \in SettingNames |-> "unset" ] ]

Workload(cs) ==
    [ empty |-> FALSE, kind |-> "Deployment", labels |-> {}, blank |-> {},
      template |-> TRUE, containers |-> cs ]

Namespace(ls) ==
    [ empty |-> FALSE, kind |-> "Namespace", labels |-> ls, blank |-> {},
      template |-> FALSE, containers |-> << >> ]

EmptyDoc ==
    [ empty |-> TRUE, kind |-> "", labels |-> {}, blank |-> {},
      template |-> FALSE, containers |-> << >> ]

NoFile == [ exists |-> FALSE, docs |-> << >>, torn |-> FALSE ]

File(ds) == [ exists |-> TRUE, docs |-> ds, torn |-> FALSE ]

\* Path(...).with_suffix('.yaml.backup'): the last suffix is replaced
BackupPath(p) == [ stem |-> p.stem, suffix |-> ".yaml.backup" ]

PathA == [ stem |-> "a", suffix |-> ".yaml" ]
PathB == [ stem |-> "b", suffix |-> ".yaml" ]
ManifestPaths == {PathA, PathB}
AllPaths == ManifestPaths \cup { BackupPath(p) : p \in ManifestPaths }

(***************************************************************************)
(* The scanner's checks.  A violation is the dict the check builds; the    *)
(* 'justification' text is left out of the record, but reading it from a   *)
(* rule that has none raises KeyError, as in the code.                     *)
(***************************************************************************)
RECURSIVE FirstMatchFrom(_, _, _)
\* index of the first rule, from k on, whose pattern re.match-es the image; 0 if none
FirstMatchFrom(rs, image, k) ==
    IF k > Len(rs) THEN 0
    ELSE IF ReMatch(rs[k].pattern, image) THEN k
    ELSE FirstMatchFrom(rs, image, k + 1)

\* a faulty lookup: the loop does not stop at the first rule that matches, so
\* the last one wins
FirstMatch_Last(rs, image) ==
    LET M == { m \in 1..Len(rs) : ReMatch(rs[m].pattern, image) }
    IN  IF M = {} THEN 0 ELSE CHOOSE m \in M : \A n \in M : n <= m

FirstMatch(rs, image) == FirstMatchFrom(rs, image, 1)

\* _check_image_compliance raises: rule['justification'] of the matching rule is missing
CheckImageRaises(image, rules) ==
    LET k == FirstMatch(rules.image_replacement, image)
    IN  k # 0 /\ ~rules.image_replacement[k].hasJustification

\* _check_image_compliance: one violation for the first matching rule, then break
CheckImageCompliance(image, rules, file, index) ==
    LET k == FirstMatch(rules.image_replacement, image)
    IN  IF k = 0 THEN << >>
        ELSE << [ type |-> "image_compliance",
                  file |-> file,
                  manifest_index |-> index,
                  current_value |-> image,
                  recommended_value |-> rules.image_replacement[k].target,
                  risk_level |-> rules.image_replacement[k].risk,
                  remediation_type |-> rules.image_replacement[k].remediation,
                  auto_fixable |-> rules.image_replacement[k].remediation = "auto" ] >>

RECURSIVE LabelsFrom(_, _, _, _, _)
LabelsFrom(required, k, labels, file, index) ==
    IF k > Len(required) THEN << >>
    ELSE (IF required[k] \notin labels
          THEN << [ type |-> "missing_namespace_label",
                    file |-> file,
                    manifest_index |-> index,
                    missing_label |-> required[k],
                    risk_level |-> "medium",
                    remediation_type |-> "auto",
                    auto_fixable |-> TRUE ] >>
          ELSE << >>)
         \o LabelsFrom(required, k + 1, labels, file, index)

\* a faulty label check: a label whose value is empty counts as missing
CheckNamespaceLabels_ValueChecked(manifest, rules, file, index) ==
    LabelsFrom(rules.required_labels, 1, manifest.labels \ manifest.blank, file, index)

\* _check_namespace_labels
CheckNamespaceLabels(manifest, rules, file, index) ==
    LabelsFrom(rules.required_labels, 1, manifest.labels, file, index)

RECURSIVE SettingsFrom(_, _, _, _, _, _)
\* the inner loop of _check_security_context over auto_fixes.items()
SettingsFrom(fixes, k, container, i, file, index) ==
    IF k > Len(fixes) THEN << >>
    ELSE (IF container.sc[fixes[k].key] # fixes[k].expected
          THEN << [ type |-> "security_context",
                    file |-> file,
                    manifest_index |-> index,
                    container_index |-> i,
                    setting |-> fixes[k].key,
                    current_value |-> container.sc[fixes[k].key],
                    recommended_value |-> fixes[k].expected,
                    risk_level |-> "high",
                    remediation_type |-> "auto",
                    auto_fixable |-> TRUE ] >>
          ELSE << >>)
         \o SettingsFrom(fixes, k + 1, container, i, file, index)

RECURSIVE SecurityFrom(_, _, _, _, _)
SecurityFrom(containers, c, rules, file, index) ==
    IF c > Len(containers) THEN << >>
    ELSE SettingsFrom(rules.auto_fixes, 1, containers[c], c - 1, file, index)
         \o SecurityFrom(containers, c + 1, rules, file, index)

\* _check_security_context (container_index is 0-based, from enumerate)
CheckSecurityContext(containers, rules, file, index) ==
    SecurityFrom(containers, 1, rules, file, index)

RECURSIVE ImagesFrom(_, _, _, _, _)
\* the container loop of _analyze_manifest
ImagesFrom(containers, c, rules, file, index) ==
    IF c > Len(containers) THEN << >>
    ELSE CheckImageCompliance(containers[c].image, rules, file, index)
         \o ImagesFrom(containers, c + 1, rules, file, index)

\* _analyze_manifest raises (KeyError): a container has no image, or the image
\* check raises
AnalyzeRaises(manifest, rules) ==
    /\ manifest.template
    /\ \E c \in 1..Len(manifest.containers) :
          \/ ~manifest.containers[c].hasImage
          \/ CheckImageRaises(manifest.containers[c].image, rules)

\* a faulty analysis: the security-context check runs before the other two
AnalyzeManifest_SecurityFirst(manifest, rules, file, index) ==
    (IF manifest.template
     THEN CheckSecurityContext(manifest.containers, rules, file, index)
     ELSE << >>)
    \o (IF manifest.template
        THEN ImagesFrom(manifest.containers, 1, rules, file, index)
        ELSE << >>)
    \o (IF manifest.kind = "Namespace"
        THEN CheckNamespaceLabels(manifest, rules, file, index)
        ELSE << >>)

\* _analyze_manifest when it returns: image violations per container, then
\* label violations, then security-context violations
AnalyzeManifest(manifest, rules, file, index) ==
    (IF manifest.template
     THEN ImagesFrom(manifest.containers, 1, rules, file, index)
     ELSE << >>)
    \o (IF manifest.kind = "Namespace"
        THEN CheckNamespaceLabels(manifest, rules, file, index)
        ELSE << >>)
    \o (IF manifest.template
        THEN CheckSecurityContext(manifest.containers, rules, file, index)
        ELSE << >>)

RECURSIVE ScanDocs(_, _, _, _)
\* the document loop of scan_manifests inside its try block: the first
\* exception leaves the loop, keeping what was collected before it
ScanDocs(docs, i, rules, file) ==
    IF i > Len(docs) THEN << >>
    ELSE IF docs[i].empty THEN ScanDocs(docs, i + 1, rules, file)
    ELSE IF AnalyzeRaises(docs[i], rules) THEN << >>
    ELSE AnalyzeManifest(docs[i], rules, file, i - 1)
         \o ScanDocs(docs, i + 1, rules, file)

\* one iteration of the file loop of scan_manifests: a parse error of the
\* file (torn text) yields nothing
ScanFile(f, rules, file) ==
    IF f.torn THEN << >> ELSE ScanDocs(f.docs, 1, rules, file)

RECURSIVE ScanFrom(_, _, _, _)
\* scan_manifests over the directory listing: rglob("*.yaml") and is_file()
ScanFrom(fsys, order, k, src) ==
    IF k > Len(order) THEN << >>
    ELSE (IF order[k].suffix = ".yaml" /\ fsys[order[k]].exists
          THEN ScanFile(fsys[order[k]], LoadRules(src), order[k])
          ELSE << >>)
         \o ScanFrom(fsys, order, k + 1, src)

ScanManifests(fsys, order, src) == ScanFrom(fsys, order, 1, src)

(***************************************************************************)
(* State.                                                                  *)
(***************************************************************************)
VARIABLES
    fs,          \* the manifests directory: path -> file
    dirOrder,    \* the order in which rglob lists the directory
    rulesSrc,    \* the rule source: "catalog" (loadable) or "missing"
    pc,          \* position of the scanner process
    violations,  \* what scan_manifests returned
    batch,       \* auto_remediate: its argument
    idx,         \* auto_remediate: position of the for loop in batch (1-based)
    applied,     \* auto_remediate: applied_fixes
    content,     \* _fix_image_compliance: content, as read
    fixed,       \* _fix_image_compliance: fixed_content
    preFix,      \* observation: the target file as it was when the fix began
    last,        \* observation: the file and outcome of the latest fix attempt
    fixedOf,     \* observation: the violation each entry of applied was made for
    entryFs,     \* observation: the directory as it was when auto_remediate was entered
    firstScan    \* observation: what the first scan_manifests call returned

scanVars == <<fs, dirOrder, rulesSrc, pc, violations, batch, idx, applied,
              content, fixed, preFix, last, fixedOf, entryFs, firstScan>>

\* the decision engine's state
VARIABLES
    hfile,       \* the history file: [st, data]
    eng,         \* per engine instance: pc, history, patterns, calls
    clock,       \* datetime.now(), as a counter
    recorded,    \* observation: the records of the record_outcome calls that returned
    persisted,   \* observation: the latest complete history the file has held
    score        \* observation: the latest calculate_priority call and its result

engVars == <<hfile, eng, clock, recorded, persisted, score>>

\* the latest call of a method that only computes, and what it returned
VARIABLES
    compliance,  \* _calculate_compliance_score
    strategy,    \* recommend_remediation_strategy
    predicted    \* predict_blockers

callVars == <<compliance, strategy, predicted>>

vars == <<scanVars, engVars, callVars>>

\* no call has been made
NoCall == [ op |-> "none" ]

CallsIdle ==
    /\ compliance = NoCall
    /\ strategy = NoCall
    /\ predicted = NoCall

\* all sequences over S of length at most n
SeqsUpTo(S, n) == UNION { [1..k -> S] : k \in 0..n }

(***************************************************************************)
(* File text.  The text of a file is its documents; str.replace on the     *)
(* text rewrites every occurrence of the old reference, which in this      *)
(* model occurs in image scalars only.                                     *)
(***************************************************************************)
TextOf(f) == [ docs |-> f.docs, torn |-> f.torn ]

FileOf(text) == [ exists |-> TRUE, docs |-> text.docs, torn |-> text.torn ]

EmptyText == [ docs |-> << >>, torn |-> FALSE ]

ReplaceInContainer(c, old, new) ==
    IF c.hasImage THEN [c EXCEPT !.image = Replace(c.image, old, new)] ELSE c

ReplaceInDoc(d, old, new) ==
    [d EXCEPT !.containers =
        [ c \in 1..Len(d.containers) |-> ReplaceInContainer(d.containers[c], old, new) ]]

\* content.replace(old_image, new_image)
ReplaceText(text, old, new) ==
    [ docs |-> [ i \in 1..Len(text.docs) |-> ReplaceInDoc(text.docs[i], old, new) ],
      torn |-> text.torn ]

\* what a file holds when f.write(text) fails part way: nothing, or a proper
\* prefix of the text that ends inside a document
PartialWrites(text) ==
    { EmptyText }
    \cup { [ docs |-> SubSeq(text.docs, 1, k), torn |-> TRUE ] :
             k \in 0..(Len(text.docs) - 1) }

(***************************************************************************)
(* Scanner process: scan_manifests, then auto_remediate.  Every file       *)
(* operation of _fix_image_compliance is a step of its own, and each may   *)
(* raise; auto_remediate catches the exception and goes on with the next   *)
(* violation.                                                              *)
(***************************************************************************)
Range(q) == { q[i] : i \in 1..Len(q) }

IsAutoFixable(v) == v.auto_fixable

\* a violation of a type _apply_fix has no method for
UnsupportedViolation ==
    [ type |-> "unsupported_type", file |-> PathA, auto_fixable |-> TRUE ]

\* the argument generate_compliance_report passes to auto_remediate
ReportBatch(vs) == SelectSeq(vs, IsAutoFixable)

\* arguments of auto_remediate
BatchInputs(vs) ==
    SeqsUpTo(Range(vs) \cup {UnsupportedViolation}, MaxBatch) \cup {ReportBatch(vs)}

NoAttempt == [ outcome |-> "none" ]

\* scan_manifests
Scan ==
    /\ pc \in {"start", "scanned", "done"}
    /\ violations' = ScanManifests(fs, dirOrder, rulesSrc)
    /\ firstScan' = IF pc = "start" THEN violations' ELSE firstScan
    /\ pc' = IF pc = "start" THEN "scanned" ELSE "rescanned"
    /\ UNCHANGED <<fs, dirOrder, entryFs, rulesSrc, batch, idx, applied, content, fixed,
                   preFix, last, fixedOf,
                   engVars, callVars>>

\* auto_remediate: entry
AutoRemediate(b) ==
    /\ pc = "scanned"
    /\ batch' = b
    /\ idx' = 1
    /\ applied' = << >>
    /\ fixedOf' = << >>
    /\ entryFs' = fs
    /\ pc' = "loop"
    /\ UNCHANGED <<fs, dirOrder, firstScan, rulesSrc, violations, content, fixed,
                   preFix, last,
                   engVars, callVars>>

AtViolation == pc = "loop" /\ idx <= Len(batch)

\* the fix attempt raised: auto_remediate logs it and takes the next violation
Raised(how) ==
    /\ last' = [ outcome |-> how, v |-> batch[idx] ]
    /\ idx' = idx + 1
    /\ pc' = "loop"
    /\ UNCHANGED <<dirOrder, firstScan, entryFs, rulesSrc, violations, batch, applied, content, fixed,
                   preFix, fixedOf,
                   engVars, callVars>>

\* auto_remediate: a violation that is not auto_fixable is passed over
SkipNotFixable ==
    /\ AtViolation
    /\ ~batch[idx].auto_fixable
    /\ idx' = idx + 1
    /\ UNCHANGED <<fs, dirOrder, firstScan, entryFs, rulesSrc, pc, violations, batch, applied,
                   content, fixed, preFix, last, fixedOf,
                   engVars, callVars>>

\* what auto_remediate does with the dict _apply_fix returned
Collect(result) ==
    IF result.success THEN Append(applied, result) ELSE applied

CollectFor(result, v) ==
    IF result.success THEN Append(fixedOf, v) ELSE fixedOf

\* _fix_namespace_label, and auto_remediate's handling of its result
FixNamespaceLabel ==
    /\ AtViolation
    /\ batch[idx].auto_fixable
    /\ batch[idx].type = "missing_namespace_label"
    /\ LET result == [ success |-> TRUE, fix_type |-> "namespace_label_addition" ]
       IN  /\ applied' = Collect(result)
           /\ fixedOf' = CollectFor(result, batch[idx])
    /\ idx' = idx + 1
    /\ UNCHANGED <<fs, dirOrder, firstScan, entryFs, rulesSrc, pc, violations, batch, content, fixed,
                   preFix, last,
                   engVars, callVars>>

\* _fix_security_context, and auto_remediate's handling of its result
FixSecurityContext ==
    /\ AtViolation
    /\ batch[idx].auto_fixable
    /\ batch[idx].type = "security_context"
    /\ LET result == [ success |-> TRUE, fix_type |-> "security_context_update" ]
       IN  /\ applied' = Collect(result)
           /\ fixedOf' = CollectFor(result, batch[idx])
    /\ idx' = idx + 1
    /\ UNCHANGED <<fs, dirOrder, firstScan, entryFs, rulesSrc, pc, violations, batch, content, fixed,
                   preFix, last,
                   engVars, callVars>>

FixTypes == {"image_compliance", "missing_namespace_label", "security_context"}

\* _apply_fix: no method for the type; the failure dict goes back to
\* auto_remediate, which appends successful results only
FixUnsupported ==
    /\ AtViolation
    /\ batch[idx].auto_fixable
    /\ batch[idx].type \notin FixTypes
    /\ LET result == [ success |-> FALSE, error |-> "unsupported" ]
       IN  /\ applied' = Collect(result)
           /\ fixedOf' = CollectFor(result, batch[idx])
    /\ last' = [ outcome |-> "unsupported", v |-> batch[idx] ]
    /\ idx' = idx + 1
    /\ UNCHANGED <<fs, dirOrder, firstScan, entryFs, rulesSrc, pc, violations, batch, content, fixed,
                   preFix,
                   engVars, callVars>>

AtImageFix ==
    /\ AtViolation
    /\ batch[idx].auto_fixable
    /\ batch[idx].type = "image_compliance"

\* _fix_image_compliance: read the file and compute the replacement
FixImageRead ==
    /\ AtImageFix
    /\ fs[batch[idx].file].exists
    /\ content' = TextOf(fs[batch[idx].file])
    /\ fixed' = ReplaceText(TextOf(fs[batch[idx].file]),
                            batch[idx].current_value, batch[idx].recommended_value)
    /\ preFix' = fs[batch[idx].file]
    /\ last' = [ outcome |-> "running", v |-> batch[idx] ]
    /\ pc' = "backup_open"
    /\ UNCHANGED <<fs, dirOrder, firstScan, entryFs, rulesSrc, violations, batch, idx, applied, fixedOf,
                   engVars, callVars>>

\* open(file_path, 'r') or f.read() raises
FixImageReadFails ==
    /\ AtImageFix
    /\ UNCHANGED fs
    /\ Raised("read_failed")

\* open(backup_path, 'w'): the backup is created or truncated
FixImageBackupOpen ==
    /\ pc = "backup_open"
    /\ fs' = [fs EXCEPT ![BackupPath(batch[idx].file)] = FileOf(EmptyText)]
    /\ pc' = "backup_write"
    /\ UNCHANGED <<dirOrder, firstScan, entryFs, rulesSrc, violations, batch, idx, applied, content,
                   fixed, preFix, last, fixedOf,
                   engVars, callVars>>

FixImageBackupOpenFails ==
    /\ pc = "backup_open"
    /\ UNCHANGED fs
    /\ Raised("backup_open_failed")

\* a faulty write-up of the backup step: the backup receives the replaced text
FixImageBackupWrite_WritesFixed ==
    /\ pc = "backup_write"
    /\ fs' = [fs EXCEPT ![BackupPath(batch[idx].file)] = FileOf(fixed)]
    /\ pc' = "target_open"
    /\ UNCHANGED <<dirOrder, firstScan, entryFs, rulesSrc, violations, batch, idx, applied, content,
                   fixed, preFix, last, fixedOf,
                   engVars, callVars>>

\* f.write(content) and the close of the with block
FixImageBackupWrite ==
    /\ pc = "backup_write"
    /\ fs' = [fs EXCEPT ![BackupPath(batch[idx].file)] = FileOf(content)]
    /\ pc' = "target_open"
    /\ UNCHANGED <<dirOrder, firstScan, entryFs, rulesSrc, violations, batch, idx, applied, content,
                   fixed, preFix, last, fixedOf,
                   engVars, callVars>>

FixImageBackupWriteFails ==
    /\ pc = "backup_write"
    /\ \E part \in PartialWrites(content) :
          fs' = [fs EXCEPT ![BackupPath(batch[idx].file)] = FileOf(part)]
    /\ Raised("backup_write_failed")

\* open(file_path, 'w'): the target is truncated
FixImageTargetOpen ==
    /\ pc = "target_open"
    /\ fs' = [fs EXCEPT ![batch[idx].file] = FileOf(EmptyText)]
    /\ pc' = "target_write"
    /\ UNCHANGED <<dirOrder, firstScan, entryFs, rulesSrc, violations, batch, idx, applied, content,
                   fixed, preFix, last, fixedOf,
                   engVars, callVars>>

FixImageTargetOpenFails ==
    /\ pc = "target_open"
    /\ UNCHANGED fs
    /\ Raised("target_open_failed")

\* f.write(fixed_content), the return of the fix dict and its collection
FixImageTargetWrite ==
    /\ pc = "target_write"
    /\ fs' = [fs EXCEPT ![batch[idx].file] = FileOf(fixed)]
    /\ LET result == [ success |-> TRUE,
                       file |-> batch[idx].file,
                       fix_type |-> "image_replacement",
                       old_value |-> batch[idx].current_value,
                       new_value |-> batch[idx].recommended_value ]
       IN  /\ applied' = Collect(result)
           /\ fixedOf' = CollectFor(result, batch[idx])
    /\ last' = [ outcome |-> "fixed", v |-> batch[idx] ]
    /\ idx' = idx + 1
    /\ pc' = "loop"
    /\ UNCHANGED <<dirOrder, firstScan, entryFs, rulesSrc, violations, batch, content, fixed, preFix,
                   engVars, callVars>>

FixImageTargetWriteFails ==
    /\ pc = "target_write"
    /\ \E part \in PartialWrites(fixed) :
          fs' = [fs EXCEPT ![batch[idx].file] = FileOf(part)]
    /\ Raised("target_write_failed")

\* auto_remediate: return applied_fixes
RemediateReturn ==
    /\ pc = "loop"
    /\ idx > Len(batch)
    /\ pc' = "done"
    /\ UNCHANGED <<fs, dirOrder, firstScan, entryFs, rulesSrc, violations, batch, idx, applied,
                   content, fixed, preFix, last, fixedOf,
                   engVars, callVars>>

(***************************************************************************)
(* _calculate_compliance_score.  A score is held in tenths (100.0 is       *)
(* 1000).  The quotients are exact and round(x, 1) rounds the exact value, *)
(* a tie going to the even tenth; for lists of the model's lengths the     *)
(* float computation of the code gives the same tenths.                    *)
(***************************************************************************)
\* num / den rounded to the nearest integer, a tie going to the even one
RoundHalfEven(num, den) ==
    LET q == num \div den
        r == num % den
    IN  IF 2 * r > den \/ (2 * r = den /\ q % 2 = 1) THEN q + 1 ELSE q

FullScore == 1000

\* a faulty score: the smoothing terms of the denominators left out
CalculateComplianceScore_NoSmoothing(vs, fixes) ==
    IF Len(vs) = 0 THEN FullScore
    ELSE LET auto_fixable == Len(SelectSeq(vs, IsAutoFixable))
             fixed_count == Len(fixes)
             total == Len(vs)
         IN  IF auto_fixable > 0
             THEN RoundHalfEven(1000 * (total - (total - auto_fixable)) * fixed_count,
                                total * auto_fixable)
             ELSE RoundHalfEven(1000 * (total - total), total)

\* _calculate_compliance_score:
\*   round(100 * (1 - remaining_non_auto / (total + 1)) * fixed / auto_fixable, 1)
\*   round(100 * (1 - total / (total + 10)), 1)   when nothing is auto-fixable
CalculateComplianceScore(vs, fixes) ==
    IF Len(vs) = 0 THEN FullScore
    ELSE LET auto_fixable == Len(SelectSeq(vs, IsAutoFixable))
             fixed_count == Len(fixes)
             total == Len(vs)
             remaining_non_auto == total - auto_fixable
         IN  IF auto_fixable > 0
             THEN RoundHalfEven(1000 * ((total + 1) - remaining_non_auto) * fixed_count,
                                (total + 1) * auto_fixable)
             ELSE RoundHalfEven(1000 * ((total + 10) - total), total + 10)

\* the violations and fixes handed to _calculate_compliance_score
ManualViolation == CheckImageCompliance(ImgNx, CatalogRules, PathA, 0)[1]
AutoViolation == CheckImageCompliance(ImgNg, CatalogRules, PathA, 0)[1]
ImageFix ==
    [ success |-> TRUE, file |-> PathA, fix_type |-> "image_replacement",
      old_value |-> ImgNg, new_value |-> ImgNgPinned ]

\* a _calculate_compliance_score call on violations and the fixes applied to
\* some of the auto-fixable ones; it changes nothing, so a run observes one
ComplianceScore(vs, fixes) ==
    /\ compliance = NoCall
    /\ Len(fixes) <= Len(SelectSeq(vs, IsAutoFixable))
    /\ compliance' = [ op |-> "score", violations |-> vs, fixes |-> fixes,
                       result |-> CalculateComplianceScore(vs, fixes) ]
    /\ UNCHANGED <<engVars, scanVars, strategy, predicted>>

(***************************************************************************)
(* Decision engine.  A history is the dict _load_history returns; the two  *)
(* maps failure_patterns and execution_times are never written and are     *)
(* left out.  last_updated = 0 stands for the key being absent.  A record  *)
(* of a stream carries error_type = << >> when it has no such key          *)
(* (get("error_type", "") then yields "").                                 *)
(***************************************************************************)
EmptyHistory ==
    [ ci_failures |-> << >>, remediation_success |-> << >>, last_updated |-> 0 ]

\* text used by the engine's heuristics
DotTxt == <<".","t","x","t">>
Naming == <<"n","a","m","i","n","g">>
Dependency == <<"d","e","p","e","n","d","e","n","c","y">>

\* str.lower() on the characters the model uses
LowerChar(c) ==
    CASE c = "N" -> "n"
      [] c = "D" -> "d"
      [] c = "T" -> "t"
      [] OTHER -> c

Lower(str) == [ i \in 1..Len(str) |-> LowerChar(str[i]) ]

PatternKeys == {"double_extension", "naming_violation", "dependency_issue"}

\* the increments one failure record makes in _extract_failure_patterns
PatternHits(failure) ==
    [ k \in PatternKeys |->
        CASE k = "double_extension" ->
               IF Contains(failure.file_path, DotTxt) /\ EndsWith(failure.file_path, DotTxt)
               THEN 1 ELSE 0
          [] k = "naming_violation" ->
               IF Contains(Lower(failure.error_type), Naming) THEN 1 ELSE 0
          [] k = "dependency_issue" ->
               IF Contains(Lower(failure.error_type), Dependency) THEN 1 ELSE 0 ]

RECURSIVE PatternsFrom(_, _)
PatternsFrom(failures, i) ==
    IF i > Len(failures) THEN [ k \in PatternKeys |-> 0 ]
    ELSE [ k \in PatternKeys |->
             PatternHits(failures[i])[k] + PatternsFrom(failures, i + 1)[k] ]

\* _extract_failure_patterns: counts over history["ci_failures"] only; a key
\* with count 0 is a key the dict does not have
ExtractFailurePatterns(history) == PatternsFrom(history.ci_failures, 1)

\* self.patterns.get(issue_type, 0)
HistoricalFreq(patterns, issue_type) ==
    IF issue_type \in PatternKeys THEN patterns[issue_type] ELSE 0

WeightBlockingCi == 40
WeightSecurityRisk == 35
WeightMultipleFiles == 25
WeightFrequentOccurrence == 20
MaxScore == 100
FreqHigh == 3
FreqLow == 1
BonusHigh == 15
BonusLow == 5

\* the loop over impact_factors
BaseScore(issue) ==
      (IF issue.blocking_ci THEN WeightBlockingCi ELSE 0)
    + (IF issue.security_risk THEN WeightSecurityRisk ELSE 0)
    + (IF issue.multiple_files THEN WeightMultipleFiles ELSE 0)
    + (IF issue.frequent_occurrence THEN WeightFrequentOccurrence ELSE 0)

\* a faulty adjustment: the thresholds compared with >= instead of >
HistoryBonus_Inclusive(freq) ==
    IF freq >= FreqHigh THEN BonusHigh
    ELSE IF freq >= FreqLow THEN BonusLow
    ELSE 0

\* the adjustment by historical frequency
HistoryBonus(freq) ==
    IF freq > FreqHigh THEN BonusHigh
    ELSE IF freq > FreqLow THEN BonusLow
    ELSE 0

Min(a, b) == IF a <= b THEN a ELSE b

\* a faulty priority: the sum without the cap
CalculatePriority_NoCap(issue, patterns) ==
    BaseScore(issue) + HistoryBonus(HistoricalFreq(patterns, issue.type))

\* calculate_priority
CalculatePriority(issue, patterns) ==
    Min(MaxScore, BaseScore(issue) + HistoryBonus(HistoricalFreq(patterns, issue.type)))

(***************************************************************************)
(* Engine instances and the history file.  The file is "absent", "full"    *)
(* (data is the history json.dump wrote), "empty" (truncated by            *)
(* open(..., 'w')) or "partial" (text json.load cannot decode).            *)
(***************************************************************************)
Engines == {1, 2}

AbsentFile == [ st |-> "absent", data |-> EmptyHistory ]

FullFile(h) == [ st |-> "full", data |-> h ]

BrokenFile(state) == [ st |-> state, data |-> EmptyHistory ]

\* the record dict of record_outcome
OutcomeRecord(issue, success, time_taken, now) ==
    [ issue_type |-> issue.type,
      file_path |-> issue.file_path,
      success |-> success,
      time_taken |-> time_taken,
      timestamp |-> now,
      error_type |-> << >> ]

NoRecord == OutcomeRecord([ type |-> "", file_path |-> << >> ], FALSE, 0, 0)

NoEngine ==
    [ pc |-> "none", history |-> EmptyHistory,
      patterns |-> [ k \in PatternKeys |-> 0 ], calls |-> 0, rec |-> NoRecord ]

NoScore == [ value |-> -1 ]

PathTxt == <<"a",".","t","x","t">>
PathYaml == <<"m",".","y">>

\* the issues handed to record_outcome
RecordIssues ==
    { [ type |-> t, file_path |-> f ] :
        t \in {"double_extension", "naming_violation"}, f \in {PathTxt, PathYaml} }

\* the number of records a history holds: the length of its text grows with it
Size(h) == Len(h.ci_failures) + Len(h.remediation_success)

\* __init__: _load_history and _extract_failure_patterns.  json.load raises
\* on an empty or partial file, and then no engine is constructed.
Construct(e) ==
    /\ eng[e].pc \in {"none", "idle"}
    /\ hfile.st \in {"absent", "full"}
    /\ LET h == IF hfile.st = "full" THEN hfile.data ELSE EmptyHistory
       IN  eng' = [eng EXCEPT ![e] = [ pc |-> "idle", history |-> h,
                                       patterns |-> ExtractFailurePatterns(h),
                                       calls |-> eng[e].calls,
                                       rec |-> NoRecord ]]
    /\ UNCHANGED <<hfile, clock, recorded, persisted, score, scanVars, callVars>>

\* a faulty append: the streams taken for one another
AppendOutcome_WrongStream(h, rec) ==
    IF rec.success
    THEN [h EXCEPT !.ci_failures = Append(h.ci_failures, rec)]
    ELSE [h EXCEPT !.remediation_success = Append(h.remediation_success, rec)]

\* record_outcome: the append to the stream
AppendOutcome(h, rec) ==
    IF rec.success
    THEN [h EXCEPT !.remediation_success = Append(h.remediation_success, rec)]
    ELSE [h EXCEPT !.ci_failures = Append(h.ci_failures, rec)]

\* _save_history: the timestamp
Stamp(h, now) == [h EXCEPT !.last_updated = now]

\* record_outcome up to the open of the history file: the record is appended
\* in memory and last_updated is set
RecordOutcome(e, issue, success, time_taken) ==
    /\ eng[e].pc = "idle"
    /\ eng[e].calls < MaxRecords
    /\ eng' = [eng EXCEPT
                 ![e].history =
                     Stamp(AppendOutcome(eng[e].history,
                                         OutcomeRecord(issue, success, time_taken, clock + 1)),
                           clock + 2),
                 ![e].rec = OutcomeRecord(issue, success, time_taken, clock + 1),
                 ![e].calls = eng[e].calls + 1,
                 ![e].pc = "open"]
    /\ clock' = clock + 2
    /\ UNCHANGED <<hfile, recorded, persisted, score, scanVars, callVars>>

\* _save_history: open(self.history_path, 'w') truncates the file
SaveOpen(e) ==
    /\ eng[e].pc = "open"
    /\ hfile' = BrokenFile("empty")
    /\ eng' = [eng EXCEPT ![e].pc = "dump"]
    /\ UNCHANGED <<clock, recorded, persisted, score, scanVars, callVars>>

\* open raises; the exception leaves record_outcome
SaveOpenFails(e) ==
    /\ eng[e].pc = "open"
    /\ eng' = [eng EXCEPT ![e].pc = "idle"]
    /\ UNCHANGED <<hfile, clock, recorded, persisted, score, scanVars, callVars>>

\* what the file holds after this writer's text went in at offset 0: text that
\* another writer put there since this writer's open stays behind it when it
\* is longer
DumpResults(h) ==
    CASE hfile.st = "full" /\ Size(hfile.data) > Size(h) -> { BrokenFile("partial") }
      [] hfile.st = "full" /\ Size(hfile.data) = Size(h) /\ hfile.data # h ->
             { FullFile(h), BrokenFile("partial") }
      [] hfile.st = "partial" -> { FullFile(h), BrokenFile("partial") }
      [] OTHER -> { FullFile(h) }

\* _save_history: json.dump and the close of the file; record_outcome returns
SaveDump(e) ==
    /\ eng[e].pc = "dump"
    /\ hfile' \in DumpResults(eng[e].history)
    /\ eng' = [eng EXCEPT ![e].pc = "idle"]
    /\ recorded' = recorded \cup { eng[e].rec }
    /\ persisted' = IF hfile'.st = "full" THEN hfile'.data ELSE persisted
    /\ UNCHANGED <<clock, score, scanVars, callVars>>

\* json.dump or the flush raises: the file keeps what reached it
SaveDumpFails(e) ==
    /\ eng[e].pc = "dump"
    /\ hfile' \in { BrokenFile("empty"), BrokenFile("partial") }
    /\ eng' = [eng EXCEPT ![e].pc = "idle"]
    /\ UNCHANGED <<clock, recorded, persisted, score, scanVars, callVars>>

\* the issues handed to calculate_priority
ScoreIssues ==
    [ type : PatternKeys \cup {"image_compliance"},
      blocking_ci : BOOLEAN, security_risk : BOOLEAN,
      multiple_files : BOOLEAN, frequent_occurrence : BOOLEAN ]

\* a calculate_priority call
Score(e, issue) ==
    /\ eng[e].pc = "idle"
    /\ score' = [ issue |-> issue, freq |-> HistoricalFreq(eng[e].patterns, issue.type),
                  value |-> CalculatePriority(issue, eng[e].patterns) ]
    /\ UNCHANGED <<hfile, eng, clock, recorded, persisted, scanVars, callVars>>

ImmediateThreshold == 70
BatchThreshold == 40

\* a faulty plan: the lower bound of the batch bucket taken exclusive
RecommendRemediationStrategy_ExclusiveBatch(issues, patterns) ==
    LET high == SelectSeq(issues,
                   LAMBDA i : CalculatePriority(i, patterns) >= ImmediateThreshold)
        medium == SelectSeq(issues,
                   LAMBDA i : /\ BatchThreshold < CalculatePriority(i, patterns)
                              /\ CalculatePriority(i, patterns) < ImmediateThreshold)
        low == SelectSeq(issues,
                   LAMBDA i : CalculatePriority(i, patterns) < BatchThreshold)
    IN  [ immediate_actions |-> high,
          batch_fixes |-> medium,
          deferred_improvements |-> low,
          estimated_time |-> Len(high) * 10 + Len(medium) * 5 + Len(low) * 2,
          parallelizable |-> Len(high) > 2 ]

\* recommend_remediation_strategy: three list comprehensions over issues
RecommendRemediationStrategy(issues, patterns) ==
    LET high == SelectSeq(issues,
                   LAMBDA i : CalculatePriority(i, patterns) >= ImmediateThreshold)
        medium == SelectSeq(issues,
                   LAMBDA i : /\ BatchThreshold <= CalculatePriority(i, patterns)
                              /\ CalculatePriority(i, patterns) < ImmediateThreshold)
        low == SelectSeq(issues,
                   LAMBDA i : CalculatePriority(i, patterns) < BatchThreshold)
    IN  [ immediate_actions |-> high,
          batch_fixes |-> medium,
          deferred_improvements |-> low,
          estimated_time |-> Len(high) * 10 + Len(medium) * 5 + Len(low) * 2,
          parallelizable |-> Len(high) > 2 ]

\* the issues handed to recommend_remediation_strategy
PlanIssues ==
    [ type : {"double_extension"},
      blocking_ci : BOOLEAN, security_risk : BOOLEAN,
      multiple_files : BOOLEAN, frequent_occurrence : BOOLEAN ]

\* a recommend_remediation_strategy call; it changes nothing of the engine, so
\* a run observes one
Plan(e, issues) ==
    /\ eng[e].pc = "idle"
    /\ strategy = NoCall
    /\ strategy' = [ op |-> "plan", issues |-> issues,
                     result |-> RecommendRemediationStrategy(issues, eng[e].patterns) ]
    /\ UNCHANGED <<engVars, scanVars, compliance, predicted>>

(***************************************************************************)
(* predict_blockers.  confidence is held in hundredths (0.95 is 95).  The  *)
(* suggested_fix of a double_extension issue is a sentence that names the  *)
(* file and the name it should be given; the model keeps that name.        *)
(***************************************************************************)
\* the characters \w matches, among those of the model's paths
WordChars ==
    { "a", "b", "c", "d", "e", "k", "m", "p", "s", "t", "u", "x", "y", "T", "_" }

\* re.search(r'\.\w+\.txt$', path): a dot, one or more word characters, and
\* ".txt" at the end of the path
DoubleExtension(path) ==
    /\ EndsWith(path, DotTxt)
    /\ \E i \in 1..(Len(path) - 5) :
          /\ path[i] = "."
          /\ \A k \in (i + 1)..(Len(path) - 4) : path[k] \in WordChars

NamingKeywords ==
    { <<"t","e","s","t">>, <<"t","e","m","p">>, <<"b","a","c","k","u","p">> }

\* any(keyword in file_path.lower() for keyword in ["test", "temp", "backup"])
NamingRisk(path) == \E keyword \in NamingKeywords : Contains(Lower(path), keyword)

ConfidenceDoubleExtension == 95
ConfidenceNaming == 70

\* the issues list of one file_path, in the order of the two appends
IssuesOf(path) ==
    (IF DoubleExtension(path)
     THEN << [ type |-> "double_extension", file_path |-> path,
               predicted_impact |-> "high",
               confidence |-> ConfidenceDoubleExtension,
               suggested_fix |-> Replace(path, DotTxt, << >>) ] >>
     ELSE << >>)
    \o (IF NamingRisk(path)
        THEN << [ type |-> "naming_convention", file_path |-> path,
                  predicted_impact |-> "medium",
                  confidence |-> ConfidenceNaming,
                  suggested_fix |-> path ] >>
        ELSE << >>)

RECURSIVE PredictedFrom(_, _)
\* predicted_issues after the loop over changed_files
PredictedFrom(files, k) ==
    IF k > Len(files) THEN << >>
    ELSE IssuesOf(files[k]) \o PredictedFrom(files, k + 1)

\* the sort key: {"high": 2, "medium": 1, "low": 0}[x["predicted_impact"]]
ImpactRank(x) ==
    CASE x.predicted_impact = "high" -> 2
      [] x.predicted_impact = "medium" -> 1
      [] x.predicted_impact = "low" -> 0

Reverse(q) == [ i \in 1..Len(q) |-> q[Len(q) + 1 - i] ]

\* x put into the ascending list q behind every element whose key is not larger
InsertAscending(q, x) ==
    LET n == Cardinality({ i \in 1..Len(q) : ImpactRank(q[i]) <= ImpactRank(x) })
    IN  SubSeq(q, 1, n) \o <<x>> \o SubSeq(q, n + 1, Len(q))

RECURSIVE SortAscending(_, _)
\* the stable ascending sort of q[1..k]
SortAscending(q, k) ==
    IF k = 0 THEN << >> ELSE InsertAscending(SortAscending(q, k - 1), q[k])

\* a faulty descending sort: the ascending sort, reversed
SortedReverse_TiesReversed(q) == Reverse(SortAscending(q, Len(q)))

\* sorted(q, key=ImpactRank, reverse=True): list.sort reverses the list, sorts
\* it ascending and stable, and reverses the result
SortedReverse(q) == Reverse(SortAscending(Reverse(q), Len(q)))

\* predict_blockers
PredictBlockers(files) == SortedReverse(PredictedFrom(files, 1))

\* the paths handed to predict_blockers
PathDouble == <<"a",".","y",".","t","x","t">>
PathDoubleB == <<"b",".","y",".","t","x","t">>
PathTest == <<"t","e","s","t",".","y">>
PathTempDouble == <<"T","e","m","p",".","y",".","t","x","t">>
PathTxtTxt == <<"a",".","t","x","t",".","t","x","t">>
PredictPaths == { PathDouble, PathDoubleB, PathTest, PathTempDouble, PathTxtTxt }

\* a predict_blockers call; it changes nothing of the engine, so a run observes
\* one
Predict(e, files) ==
    /\ eng[e].pc = "idle"
    /\ predicted = NoCall
    /\ predicted' = [ op |-> "predict", files |-> files,
                      result |-> PredictBlockers(files) ]
    /\ UNCHANGED <<engVars, scanVars, compliance, strategy>>

(***************************************************************************)
(* Specifications.                                                         *)
(***************************************************************************)
EngineIdle ==
    /\ CallsIdle
    /\ hfile = AbsentFile
    /\ eng = [ e \in Engines |-> NoEngine ]
    /\ clock = 0
    /\ recorded = {}
    /\ persisted = IF hfile.st = "full" THEN hfile.data ELSE EmptyHistory
    /\ score = NoScore

ScannerIdle ==
    /\ fs = [ p \in AllPaths |-> NoFile ]
    /\ dirOrder = << >>
    /\ rulesSrc = "missing"
    /\ pc = "start"
    /\ violations = << >>
    /\ batch = << >>
    /\ idx = 1
    /\ applied = << >>
    /\ content = EmptyText
    /\ fixed = EmptyText
    /\ preFix = NoFile
    /\ last = NoAttempt
    /\ fixedOf = << >>
    /\ entryFs = fs
    /\ firstScan = << >>

\* documents of the manifests the scan-and-remediate run starts from
WlNg == Workload(<< Container(ImgNg, "true", "unset"), Container(ImgOk, "true", "false") >>)
WlNx == Workload(<< Container(ImgNx, "true", "false") >>)
NsNoTeam == Namespace({"environment", "lifecycle"})
PipelineDocs == {WlNg, WlNx, NsNoTeam}

ListingAB == << PathA, BackupPath(PathA), PathB, BackupPath(PathB) >>
ListingBA == << BackupPath(PathB), PathB, BackupPath(PathA), PathA >>

Init ==
    /\ \E ds \in SeqsUpTo(PipelineDocs, MaxDocs) :
          fs = [ p \in AllPaths |-> IF p = PathA THEN File(ds) ELSE NoFile ]
    /\ dirOrder = ListingAB
    /\ rulesSrc = "catalog"
    /\ pc = "start"
    /\ violations = << >>
    /\ batch = << >>
    /\ idx = 1
    /\ applied = << >>
    /\ content = EmptyText
    /\ fixed = EmptyText
    /\ preFix = NoFile
    /\ last = NoAttempt
    /\ fixedOf = << >>
    /\ entryFs = fs
    /\ firstScan = << >>
    /\ EngineIdle

Next ==
    \/ Scan
    \/ \E b \in BatchInputs(violations) : AutoRemediate(b)
    \/ SkipNotFixable
    \/ FixNamespaceLabel
    \/ FixSecurityContext
    \/ FixUnsupported
    \/ FixImageRead
    \/ FixImageReadFails
    \/ FixImageBackupOpen
    \/ FixImageBackupOpenFails
    \/ FixImageBackupWrite
    \/ FixImageBackupWriteFails
    \/ FixImageTargetOpen
    \/ FixImageTargetOpenFails
    \/ FixImageTargetWrite
    \/ FixImageTargetWriteFails
    \/ RemediateReturn


\* one scanner process: scan, auto-remediate, scan again
Spec == Init /\ [][Next]_vars

\* documents of the manifests a scan is run on
WlNoImage == Workload(<< ContainerNoImage >>)
NsFull == Namespace({"team", "environment", "lifecycle"})
NsBare == Namespace({})
NsBlankTeam == [ NsFull EXCEPT !.blank = {"team"} ]
WlNxNg == Workload(<< Container(ImgNx, "true", "false"), Container(ImgNg, "unset", "false") >>)
WlBusybox == Workload(<< Container(BusyboxLatest, "true", "false") >>)
ScanDocSet ==
    {WlNg, WlNx, WlNxNg, WlBusybox, NsNoTeam, NsFull, NsBare, NsBlankTeam,
     WlNoImage, EmptyDoc}

InitScan ==
    /\ \E ds \in SeqsUpTo(ScanDocSet, MaxDocs), t \in BOOLEAN,
          fb \in {NoFile, File(<< WlNg >>)} :
          fs = [ p \in AllPaths |->
                   IF p = PathA THEN [ exists |-> TRUE, docs |-> ds, torn |-> t ]
                   ELSE IF p = PathB THEN fb ELSE NoFile ]
    /\ dirOrder \in {ListingAB, ListingBA}
    /\ rulesSrc \in RuleSources
    /\ pc = "start"
    /\ violations = << >>
    /\ batch = << >>
    /\ idx = 1
    /\ applied = << >>
    /\ content = EmptyText
    /\ fixed = EmptyText
    /\ preFix = NoFile
    /\ last = NoAttempt
    /\ fixedOf = << >>
    /\ entryFs = fs
    /\ firstScan = << >>
    /\ EngineIdle

NextScan == Scan

\* scan_manifests applied to a manifests directory
SpecScan == InitScan /\ [][NextScan]_vars

InitCompliance ==
    /\ ScannerIdle
    /\ EngineIdle

NextCompliance ==
    \E vs \in SeqsUpTo({ManualViolation, AutoViolation}, MaxViolations),
       fixes \in SeqsUpTo({ImageFix}, MaxViolations) : ComplianceScore(vs, fixes)

\* _calculate_compliance_score applied to a list of violations and of fixes
SpecCompliance == InitCompliance /\ [][NextCompliance]_vars


\* records of a history file written before the run: failures reported by
\* the pipeline, with an error_type
PriorFailure(type, path, error) ==
    [ issue_type |-> type, file_path |-> path, success |-> FALSE,
      time_taken |-> 0, timestamp |-> 0, error_type |-> error ]

PriorSuccess ==
    [ issue_type |-> "double_extension", file_path |-> PathTxt, success |-> TRUE,
      time_taken |-> 0, timestamp |-> 0, error_type |-> << >> ]

PriorFailures ==
    { PriorFailure("double_extension", PathTxt, << >>),
      PriorFailure("naming_violation", PathYaml, <<"N","a","m","i","n","g">>),
      PriorFailure("dependency_issue", PathYaml, Dependency) }

PriorHistory ==
    [ ci_failures |-> << PriorFailure("naming_violation", PathYaml, <<"N","a","m","i","n","g">>) >>,
      remediation_success |-> << >>,
      last_updated |-> 0 ]

InitHistory ==
    /\ ScannerIdle
    /\ hfile \in { AbsentFile, FullFile(PriorHistory) }
    /\ eng = [ e \in Engines |-> NoEngine ]
    /\ clock = 0
    /\ recorded = {}
    /\ persisted = IF hfile.st = "full" THEN hfile.data ELSE EmptyHistory
    /\ score = NoScore
    /\ CallsIdle

NextHistory ==
    \/ Construct(1)
    \/ \E issue \in RecordIssues, success \in BOOLEAN : RecordOutcome(1, issue, success, 7)
    \/ SaveOpen(1)
    \/ SaveOpenFails(1)
    \/ SaveDump(1)
    \/ SaveDumpFails(1)

\* one engine instance at a time on the history file; a persist may fail
SpecHistory == InitHistory /\ [][NextHistory]_vars

\* the issue both engines record outcomes of
SharedIssue == [ type |-> "double_extension", file_path |-> PathTxt ]

NextShared ==
    \E e \in Engines :
        \/ Construct(e)
        \/ \E success \in BOOLEAN : RecordOutcome(e, SharedIssue, success, 7)
        \/ SaveOpen(e)
        \/ SaveDump(e)

\* two engine instances on one history file; no persist fails
SpecShared == InitHistory /\ [][NextShared]_vars

InitScore ==
    /\ ScannerIdle
    /\ \E f \in SeqsUpTo(PriorFailures, MaxHist), r \in SeqsUpTo({PriorSuccess}, 1) :
          hfile = FullFile([ ci_failures |-> f, remediation_success |-> r,
                             last_updated |-> 0 ])
    /\ eng = [ e \in Engines |-> NoEngine ]
    /\ clock = 0
    /\ recorded = {}
    /\ persisted = IF hfile.st = "full" THEN hfile.data ELSE EmptyHistory
    /\ score = NoScore
    /\ CallsIdle

NextScore ==
    \/ Construct(1)
    \/ \E issue \in ScoreIssues : Score(1, issue)

\* calculate_priority on an engine loaded from a history file
SpecScore == InitScore /\ [][NextScore]_vars

\* a history file holding n failures of files with a double extension
TxtHistory(n) ==
    [ ci_failures |-> [ i \in 1..n |-> PriorFailure("double_extension", PathTxt, << >>) ],
      remediation_success |-> << >>,
      last_updated |-> 0 ]

InitPlan ==
    /\ ScannerIdle
    /\ \E n \in 0..MaxHist : hfile = FullFile(TxtHistory(n))
    /\ eng = [ e \in Engines |-> NoEngine ]
    /\ clock = 0
    /\ recorded = {}
    /\ persisted = hfile.data
    /\ score = NoScore
    /\ CallsIdle

NextPlan ==
    \/ Construct(1)
    \/ \E issues \in SeqsUpTo(PlanIssues, MaxPlan) : Plan(1, issues)

\* recommend_remediation_strategy on an engine loaded from a history file
SpecPlan == InitPlan /\ [][NextPlan]_vars

InitPredict ==
    /\ ScannerIdle
    /\ EngineIdle

NextPredict ==
    \/ Construct(1)
    \/ \E files \in SeqsUpTo(PredictPaths, MaxFiles) : Predict(1, files)

\* predict_blockers on a list of changed files
SpecPredict == InitPredict /\ [][NextPredict]_vars



(***************************************************************************)
(* C1.  auto_remediate returns exactly one Fix per auto-fixable input      *)
(* violation, in input order, and none for a violation that is not         *)
(* auto-fixable; a failed attempt (an I/O error, a type without a fix      *)
(* method) is kept as a Fix with success = FALSE.                          *)
(***************************************************************************)
FixKindOf(type) ==
    CASE type = "image_compliance" -> "image_replacement"
      [] type = "missing_namespace_label" -> "namespace_label_addition"
      [] type = "security_context" -> "security_context_update"
      [] OTHER -> "none"

FixIsFor(fix, v) == fix.success => fix.fix_type = FixKindOf(v.type)

\* C1: when auto_remediate has returned, its result holds one Fix per
\* auto-fixable violation of the batch, in batch order, failed attempts included
C1_OneFixPerAutoFixable ==
    pc = "done" =>
        LET wanted == SelectSeq(batch, IsAutoFixable)
        IN  /\ Len(applied) = Len(wanted)
            /\ \A k \in 1..Len(wanted) : FixIsFor(applied[k], wanted[k])

(***************************************************************************)
(* C2.  During an image fix the target file is not modified until the      *)
(* backup holds the complete pre-fix content: a step that changes a        *)
(* manifest is a step of the running fix on its target, taken while the    *)
(* backup equals the target as it was when the fix began; after a          *)
(* successful fix the backup holds the pre-fix content and the target the  *)
(* replaced content; after a failed open or write of the target the        *)
(* backup still holds the pre-fix content.                                 *)
(***************************************************************************)
BackupHoldsPreFix(p) == fs[BackupPath(p)] = preFix /\ preFix.exists

C2_StateOk ==
    /\ pc \in {"backup_open", "backup_write", "target_open"} =>
          fs[batch[idx].file] = preFix
    /\ last.outcome = "fixed" =>
          /\ BackupHoldsPreFix(last.v.file)
          /\ fs[last.v.file] =
               FileOf(ReplaceText(TextOf(preFix), last.v.current_value,
                                  last.v.recommended_value))
    /\ last.outcome \in {"target_open_failed", "target_write_failed"} =>
          BackupHoldsPreFix(last.v.file)

C2_StepOk ==
    \A p \in ManifestPaths :
        fs'[p] # fs[p] =>
            /\ pc \in {"target_open", "target_write"}
            /\ p = batch[idx].file
            /\ BackupHoldsPreFix(p)

\* C2: a manifest changes only by the running image fix, once its backup holds
\* the pre-fix content; the backup keeps it after success and after a failed
\* target write
C2_BackupBeforeWrite == [] C2_StateOk /\ [][C2_StepOk]_vars

C2_Witness ==
    /\ last.outcome = "fixed"
    /\ fs[last.v.file] # preFix
    /\ fs[BackupPath(last.v.file)] = preFix

(***************************************************************************)
(* C9.  After a namespace-label fix or a security-context fix has reported *)
(* success, the document carries the label, or the container's setting     *)
(* has the expected value, and a new scan does not report the violation.   *)
(***************************************************************************)
InSeq(x, q) == \E i \in 1..Len(q) : q[i] = x

DocEdited(v) ==
    /\ fs[v.file].exists
    /\ v.manifest_index + 1 <= Len(fs[v.file].docs)
    /\ LET d == fs[v.file].docs[v.manifest_index + 1]
       IN  IF v.type = "missing_namespace_label"
           THEN v.missing_label \in d.labels
           ELSE /\ v.container_index + 1 <= Len(d.containers)
                /\ d.containers[v.container_index + 1].sc[v.setting] = v.recommended_value

\* C9: a successful label or security-context fix has edited the document, and
\* a new scan no longer reports its violation
C9_FixEditsDocument ==
    \A k \in 1..Len(applied) :
        applied[k].fix_type \in {"namespace_label_addition", "security_context_update"} =>
            /\ DocEdited(fixedOf[k])
            /\ ~InSeq(fixedOf[k], ScanManifests(fs, dirOrder, rulesSrc))

(***************************************************************************)
(* C10.  When the collection holds a malformed document (a container       *)
(* without image, or a file whose text cannot be parsed to its end), the   *)
(* scan returns the violations of every other document, each as it would   *)
(* be analysed on its own, in listing and document order, and none for the *)
(* malformed one.                                                          *)
(***************************************************************************)
Malformed(d) ==
    /\ ~d.empty
    /\ d.template
    /\ \E c \in 1..Len(d.containers) : ~d.containers[c].hasImage

HasMalformed ==
    \E p \in ManifestPaths :
        /\ fs[p].exists
        /\ \/ fs[p].torn
           \/ \E i \in 1..Len(fs[p].docs) : Malformed(fs[p].docs[i])

RECURSIVE AloneDocs(_, _, _, _)
AloneDocs(docs, i, rules, file) ==
    IF i > Len(docs) THEN << >>
    ELSE (IF docs[i].empty \/ AnalyzeRaises(docs[i], rules) THEN << >>
          ELSE AnalyzeManifest(docs[i], rules, file, i - 1))
         \o AloneDocs(docs, i + 1, rules, file)

RECURSIVE AloneFrom(_, _)
AloneFrom(order, k) ==
    IF k > Len(order) THEN << >>
    ELSE (IF order[k].suffix = ".yaml" /\ fs[order[k]].exists
          THEN AloneDocs(fs[order[k]].docs, 1, LoadRules(rulesSrc), order[k])
          ELSE << >>)
         \o AloneFrom(order, k + 1)

\* C10: with a malformed document in the collection, the scan result is what
\* the other documents give when each is analysed on its own
C10_MalformedSkippedAlone ==
    (pc = "scanned" /\ HasMalformed) => violations = AloneFrom(dirOrder, 1)


(***************************************************************************)
(* C3.  History is append-only.  A record_outcome call appends exactly one *)
(* record, its own, at the end of remediation_success when success is      *)
(* true and at the end of ci_failures otherwise, and leaves the other      *)
(* stream unchanged; the rest of the call changes neither stream in        *)
(* memory.  Each time the call has persisted, the file holds the history   *)
(* in memory: each stream of the file's previous content is a prefix of    *)
(* its new content, the call's record is the last of its stream, and       *)
(* last_updated is the time of this persist, later than the previous one.  *)
(***************************************************************************)
IsPrefix(q, w) == Len(q) <= Len(w) /\ SubSeq(w, 1, Len(q)) = q

EndsWithRecord(q, r) == Len(q) > 0 /\ q[Len(q)] = r

C3_Step ==
    LET h == eng[1].history
        h2 == eng'[1].history
        r == eng'[1].rec
    IN  /\ (eng[1].pc = "idle" /\ eng'[1].pc = "open") =>
              /\ r.success =>
                    /\ h2.remediation_success = Append(h.remediation_success, r)
                    /\ h2.ci_failures = h.ci_failures
              /\ ~r.success =>
                    /\ h2.ci_failures = Append(h.ci_failures, r)
                    /\ h2.remediation_success = h.remediation_success
        /\ eng[1].pc \in {"open", "dump"} =>
              /\ h2.ci_failures = h.ci_failures
              /\ h2.remediation_success = h.remediation_success
        /\ (hfile' # hfile /\ hfile'.st = "full") =>
              /\ hfile'.data = h
              /\ IsPrefix(persisted.ci_failures, hfile'.data.ci_failures)
              /\ IsPrefix(persisted.remediation_success, hfile'.data.remediation_success)
              /\ IF eng[1].rec.success
                 THEN EndsWithRecord(hfile'.data.remediation_success, eng[1].rec)
                 ELSE EndsWithRecord(hfile'.data.ci_failures, eng[1].rec)
              /\ Size(h) = Size(persisted) + 1 =>
                    Size(hfile'.data) = Size(persisted) + 1
              /\ hfile'.data.last_updated = clock
              /\ hfile'.data.last_updated > persisted.last_updated

\* C3: every step of record_outcome appends its one record to the right stream
\* and every persist extends what the file held before
C3_AppendOnly == [][C3_Step]_vars

C3_Witness ==
    /\ hfile.st = "full"
    /\ eng[1].pc = "idle"
    /\ \E r1, r2 \in recorded :
          /\ r1.success /\ ~r2.success
          /\ EndsWithRecord(hfile.data.remediation_success, r1)
          /\ EndsWithRecord(hfile.data.ci_failures, r2)

(***************************************************************************)
(* C4.  Once every record_outcome call of the two engine instances that    *)
(* share the history file has returned, the file holds each recorded       *)
(* record exactly once.                                                    *)
(***************************************************************************)
Occurrences(q, r) == Cardinality({ i \in 1..Len(q) : q[i] = r })

\* C4: with both engines at rest the file holds every recorded record exactly
\* once
C4_NoRecordLost ==
    (\A e \in Engines : eng[e].pc \in {"none", "idle"}) =>
        \/ recorded = {}
        \/ /\ hfile.st = "full"
           /\ \A r \in recorded :
                 Occurrences(hfile.data.ci_failures, r)
                 + Occurrences(hfile.data.remediation_success, r) = 1

(***************************************************************************)
(* C5.  A record_outcome call whose persist step failed leaves the history *)
(* file holding a complete history: the one before the call or the one     *)
(* after it, never an empty or partly written file.                        *)
(***************************************************************************)
\* C5: with the engine at rest the file is absent or holds the last complete
\* history that was persisted
C5_AtomicPersist ==
    eng[1].pc \in {"none", "idle"} =>
        \/ hfile.st = "absent"
        \/ hfile.st = "full" /\ hfile.data = persisted

(***************************************************************************)
(* C6.  calculate_priority returns an integer from 0 to 100, for every     *)
(* issue and every history the engine was loaded from.                     *)
(***************************************************************************)
\* C6: every computed priority lies in 0..100
C6_ScoreInRange == score # NoScore => score.value \in 0..100

C6_Witness ==
    /\ score # NoScore
    /\ score.value = 100
    /\ BaseScore(score.issue) + HistoryBonus(score.freq) > 100

(***************************************************************************)
(* C7.  calculate_priority returns min(100, B + A): B is the sum of the    *)
(* weights of the factors that are true (blocking_ci 40, security_risk 35, *)
(* multiple_files 25, frequent_occurrence 20); A is 15 when the table's    *)
(* frequency of the issue's type is above 3, 5 when it is 2 or 3, and 0    *)
(* otherwise, a type the table does not have counting as 0.                *)
(***************************************************************************)
TableFreq(table, type) == IF type \in DOMAIN table THEN table[type] ELSE 0

C7_Expected(issue, table) ==
    LET B == (IF issue.blocking_ci THEN 40 ELSE 0)
             + (IF issue.security_risk THEN 35 ELSE 0)
             + (IF issue.multiple_files THEN 25 ELSE 0)
             + (IF issue.frequent_occurrence THEN 20 ELSE 0)
        f == TableFreq(table, issue.type)
        A == IF f > 3 THEN 15 ELSE IF f \in {2, 3} THEN 5 ELSE 0
    IN  IF B + A > 100 THEN 100 ELSE B + A

\* C7: every computed priority equals min(100, B + A) over the engine's
\* pattern table
C7_ScoreFormula ==
    score # NoScore => score.value = C7_Expected(score.issue, eng[1].patterns)

C7_Witness ==
    /\ score # NoScore
    /\ score.freq = 2
    /\ score.issue.blocking_ci /\ ~score.issue.security_risk
    /\ score.value = 45

(***************************************************************************)
(* C8.  The frequency the scorer uses for an issue type equals the number  *)
(* of records of that type in the history, both streams counted: once      *)
(* outcomes have been recorded and the history is loaded again, the        *)
(* frequency of a type is the number of its records.                       *)
(***************************************************************************)
CountType(h, type) ==
    Cardinality({ i \in 1..Len(h.ci_failures) : h.ci_failures[i].issue_type = type })
    + Cardinality({ i \in 1..Len(h.remediation_success) :
                      h.remediation_success[i].issue_type = type })

\* the engine was constructed from the file and has recorded nothing since
FreshlyLoaded(e) ==
    /\ eng[e].pc = "idle"
    /\ eng[e].rec = NoRecord
    /\ hfile.st = "full"
    /\ eng[e].history = hfile.data

\* C8: on a freshly loaded engine the frequency of each recorded type is the
\* number of its records in both streams
C8_FrequencyCountsRecords ==
    (FreshlyLoaded(1) /\ recorded # {}) =>
        \A r \in recorded :
            HistoricalFreq(eng[1].patterns, r.issue_type)
                = CountType(eng[1].history, r.issue_type)

(***************************************************************************)
(* C11.  auto_remediate processes the whole batch, and a fix attempt that  *)
(* failed leaves the later attempts as they would be without it: after a   *)
(* fix has succeeded, the list of fixes, the fixed file and its backup are *)
(* what the successful fixes alone, run in their order from the directory  *)
(* as it was at entry, produce.                                            *)
(***************************************************************************)
\* the dict a fix method returns for v
FixRecordOf(v) ==
    CASE v.type = "image_compliance" ->
           [ success |-> TRUE, file |-> v.file, fix_type |-> "image_replacement",
             old_value |-> v.current_value, new_value |-> v.recommended_value ]
      [] v.type = "missing_namespace_label" ->
           [ success |-> TRUE, fix_type |-> "namespace_label_addition" ]
      [] OTHER ->
           [ success |-> TRUE, fix_type |-> "security_context_update" ]

\* the directory after the fix of v ran on fsys without a failure
FixedDirectory(fsys, v) ==
    IF v.type = "image_compliance"
    THEN [fsys EXCEPT
            ![BackupPath(v.file)] = FileOf(TextOf(fsys[v.file])),
            ![v.file] = FileOf(ReplaceText(TextOf(fsys[v.file]),
                                           v.current_value, v.recommended_value))]
    ELSE fsys

RECURSIVE AloneRun(_, _, _)
\* the fixes of vs[k..] run one after the other on fsys, none failing
AloneRun(fsys, vs, k) ==
    IF k > Len(vs) THEN [ fs |-> fsys, applied |-> << >> ]
    ELSE LET rest == AloneRun(FixedDirectory(fsys, vs[k]), vs, k + 1)
         IN  [ fs |-> rest.fs, applied |-> <<FixRecordOf(vs[k])>> \o rest.applied ]

\* C11: the batch is processed to its end, and after a fix that succeeded the
\* fixes, the fixed file and its backup are those of the run without the
\* failed attempts
C11_FailureLeavesLaterFixesAlone ==
    /\ pc = "done" => idx = Len(batch) + 1
    /\ pc \in {"loop", "done"} =>
          LET alone == AloneRun(entryFs, fixedOf, 1)
          IN  /\ applied = alone.applied
              /\ last.outcome = "fixed" =>
                    /\ fs[last.v.file] = alone.fs[last.v.file]
                    /\ fs[BackupPath(last.v.file)] = alone.fs[BackupPath(last.v.file)]

(***************************************************************************)
(* C12.  recommend_remediation_strategy partitions its input by score:     *)
(* an issue is in immediate_actions exactly when its score is at least 70, *)
(* in batch_fixes exactly when it is at least 40 and below 70, in          *)
(* deferred_improvements exactly when it is below 40; every issue is in    *)
(* exactly one bucket and each bucket keeps the input order.               *)
(***************************************************************************)
BucketOf(s) ==
    IF s >= 70 THEN "immediate" ELSE IF s >= 40 THEN "batch" ELSE "deferred"

RECURSIVE InBucket(_, _, _, _)
\* the issues of issues[k..] whose score falls in bucket b, in input order
InBucket(issues, k, patterns, b) ==
    IF k > Len(issues) THEN << >>
    ELSE (IF BucketOf(CalculatePriority(issues[k], patterns)) = b
          THEN << issues[k] >> ELSE << >>)
         \o InBucket(issues, k + 1, patterns, b)

\* C12: the three buckets of a plan are the issues of each score range, in input
\* order, and together they hold every issue once
C12_PlanPartitions ==
    strategy.op = "plan" =>
        LET r == strategy.result
            p == eng[1].patterns
        IN  /\ r.immediate_actions = InBucket(strategy.issues, 1, p, "immediate")
            /\ r.batch_fixes = InBucket(strategy.issues, 1, p, "batch")
            /\ r.deferred_improvements = InBucket(strategy.issues, 1, p, "deferred")
            /\ Len(r.immediate_actions) + Len(r.batch_fixes)
                 + Len(r.deferred_improvements) = Len(strategy.issues)

\* a plan over an issue that scores exactly 40 followed by one that scores
\* exactly 70 (65 and the adjustment of 5)
C12_Witness ==
    /\ strategy.op = "plan"
    /\ Len(strategy.issues) = 2
    /\ CalculatePriority(strategy.issues[1], eng[1].patterns) = 40
    /\ CalculatePriority(strategy.issues[2], eng[1].patterns) = 70
    /\ strategy.result.batch_fixes = << strategy.issues[1] >>
    /\ strategy.result.immediate_actions = << strategy.issues[2] >>
    /\ strategy.result.deferred_improvements = << >>

(***************************************************************************)
(* C13.  The output of predict_blockers is ordered by impact, high before  *)
(* medium before low, and issues of equal impact are in the order in which *)
(* they were produced: the order of the paths, and for one path the        *)
(* double_extension issue before the naming_convention issue.              *)
(***************************************************************************)
RECURSIVE ProducedWith(_, _, _)
\* the issues of impact imp that files[k..] give rise to, path by path
ProducedWith(files, k, imp) ==
    IF k > Len(files) THEN << >>
    ELSE SelectSeq(IssuesOf(files[k]), LAMBDA x : x.predicted_impact = imp)
         \o ProducedWith(files, k + 1, imp)

DoubleBeforeNaming(path) ==
    LET q == IssuesOf(path)
    IN  \A i, j \in 1..Len(q) :
            (q[i].type = "double_extension" /\ q[j].type = "naming_convention") => i < j

\* C13: the result is the high issues, then the medium ones, then the low ones,
\* each group in the order of production
C13_StableByImpact ==
    predicted.op = "predict" =>
        /\ predicted.result = ProducedWith(predicted.files, 1, "high")
                              \o ProducedWith(predicted.files, 1, "medium")
                              \o ProducedWith(predicted.files, 1, "low")
        /\ \A i, j \in 1..Len(predicted.result) :
              i < j => ImpactRank(predicted.result[i]) >= ImpactRank(predicted.result[j])
        /\ \A k \in 1..Len(predicted.files) : DoubleBeforeNaming(predicted.files[k])

\* a medium issue produced before two high issues of different files
C13_Witness ==
    /\ predicted.op = "predict"
    /\ predicted.files = << PathTest, PathDouble, PathDoubleB >>
    /\ Len(predicted.result) = 3
    /\ predicted.result[1].file_path = PathDouble
    /\ predicted.result[2].file_path = PathDoubleB
    /\ predicted.result[3].file_path = PathTest

(***************************************************************************)
(* C14.  For a path that ends with an extension followed by ".txt",        *)
(* predict_blockers yields a double_extension issue of impact high and     *)
(* confidence 0.95 whose suggested fix is the path without its trailing    *)
(* ".txt"; an earlier ".txt" of the path is kept.                          *)
(***************************************************************************)
WithoutTrailingTxt(path) == SubSeq(path, 1, Len(path) - Len(DotTxt))

\* C14: every double-extension path of the input has its issue, and the issue
\* suggests the path without the last four characters
C14_FixRemovesTrailingTxt ==
    predicted.op = "predict" =>
        \A k \in 1..Len(predicted.files) :
            DoubleExtension(predicted.files[k]) =>
                \E i \in 1..Len(predicted.result) :
                    /\ predicted.result[i].type = "double_extension"
                    /\ predicted.result[i].file_path = predicted.files[k]
                    /\ predicted.result[i].predicted_impact = "high"
                    /\ predicted.result[i].confidence = 95
                    /\ predicted.result[i].suggested_fix
                         = WithoutTrailingTxt(predicted.files[k])

(***************************************************************************)
(* What a scan returned for one document.  A document is reached when the  *)
(* file was parsed and no document before it in the file made the analysis *)
(* raise; it is analysed when, reached, its own analysis returned.         *)
(***************************************************************************)
Reached(p, i) ==
    /\ fs[p].exists /\ ~fs[p].torn
    /\ i \in 1..Len(fs[p].docs)
    /\ ~fs[p].docs[i].empty
    /\ \A j \in 1..(i - 1) :
          fs[p].docs[j].empty \/ ~AnalyzeRaises(fs[p].docs[j], LoadRules(rulesSrc))

Analysed(p, i) ==
    Reached(p, i) /\ ~AnalyzeRaises(fs[p].docs[i], LoadRules(rulesSrc))

\* the violations of one type that the scan returned for document i of p
ViolationsOf(p, i, type) ==
    SelectSeq(violations,
              LAMBDA v : v.file = p /\ v.manifest_index = i - 1 /\ v.type = type)

(***************************************************************************)
(* C15.  Two scans of the same unchanged manifests return the same         *)
(* sequence of violations, ordered by file as the directory lists them, by *)
(* document within a file, and within a document: image violations in      *)
(* container order, then label violations, then security-context           *)
(* violations in container order.                                          *)
(***************************************************************************)
PositionOf(order, p) == CHOOSE k \in 1..Len(order) : order[k] = p

CheckRank(v) ==
    CASE v.type = "image_compliance" -> 1
      [] v.type = "missing_namespace_label" -> 2
      [] v.type = "security_context" -> 3

\* the images of the containers that some rule matches, in container order
MatchedImages(d, rs) ==
    LET cs == SelectSeq(d.containers,
                  LAMBDA c : c.hasImage
                             /\ \E m \in 1..Len(rs) : ReMatch(rs[m].pattern, c.image))
    IN  [ k \in 1..Len(cs) |-> cs[k].image ]

InDiscoveryOrder(vs) ==
    \A i, j \in 1..Len(vs) :
        i < j =>
            /\ PositionOf(dirOrder, vs[i].file) <= PositionOf(dirOrder, vs[j].file)
            /\ vs[i].file = vs[j].file =>
                  /\ vs[i].manifest_index <= vs[j].manifest_index
                  /\ vs[i].manifest_index = vs[j].manifest_index =>
                        /\ CheckRank(vs[i]) <= CheckRank(vs[j])
                        /\ (vs[i].type = "security_context"
                            /\ vs[j].type = "security_context") =>
                              vs[i].container_index <= vs[j].container_index

\* C15: a scan returns its violations in discovery order, and a second scan of
\* the unchanged manifests returns the same sequence
C15_ScanRepeatsInOrder ==
    /\ pc \in {"scanned", "rescanned"} =>
          /\ InDiscoveryOrder(violations)
          /\ \A p \in ManifestPaths : \A i \in 1..Len(fs[p].docs) :
                Analysed(p, i) /\ fs[p].docs[i].template =>
                    LET got == ViolationsOf(p, i, "image_compliance")
                    IN  [ k \in 1..Len(got) |-> got[k].current_value ]
                          = MatchedImages(fs[p].docs[i],
                                          LoadRules(rulesSrc).image_replacement)
    /\ pc = "rescanned" => violations = firstScan

\* a second scan of two files listed b.yaml first, whose first violations are an
\* image violation of the second container, then security-context violations
C15_Witness ==
    /\ pc = "rescanned"
    /\ dirOrder = ListingBA
    /\ Len(violations) >= 4
    /\ violations[1].file = PathB
    /\ violations[Len(violations)].file = PathA
    /\ \E p \in ManifestPaths : \E i \in 1..Len(fs[p].docs) :
          /\ Analysed(p, i)
          /\ Len(ViolationsOf(p, i, "image_compliance")) = 2
          /\ Len(ViolationsOf(p, i, "security_context")) >= 1

(***************************************************************************)
(* C16.  For a Namespace document the label check emits one                *)
(* missing_namespace_label violation for each required label that is not a *)
(* key of the document's labels, in the order of the required-label list,  *)
(* and none for a label that is present, whatever its value.               *)
(***************************************************************************)
\* C16: the label violations of a reached Namespace are its missing required
\* labels, one each, in catalog order
C16_LabelCheck ==
    pc = "scanned" =>
        \A p \in ManifestPaths : \A i \in 1..Len(fs[p].docs) :
            (Reached(p, i) /\ fs[p].docs[i].kind = "Namespace") =>
                LET got == ViolationsOf(p, i, "missing_namespace_label")
                    missing == SelectSeq(LoadRules(rulesSrc).required_labels,
                                         LAMBDA l : l \notin fs[p].docs[i].labels)
                IN  /\ Len(got) = Len(missing)
                    /\ \A k \in 1..Len(got) : got[k].missing_label = missing[k]

\* a Namespace that lacks only team gives one violation, for team, and one
\* whose team label has an empty value gives none
C16_Witness ==
    /\ pc = "scanned"
    /\ \E p \in ManifestPaths : \E i, j \in 1..Len(fs[p].docs) :
          /\ Reached(p, i) /\ fs[p].docs[i] = NsNoTeam
          /\ Len(ViolationsOf(p, i, "missing_namespace_label")) = 1
          /\ ViolationsOf(p, i, "missing_namespace_label")[1].missing_label = "team"
          /\ Reached(p, j) /\ fs[p].docs[j] = NsBlankTeam
          /\ ViolationsOf(p, j, "missing_namespace_label") = << >>

(***************************************************************************)
(* C17.  The image check emits at most one violation per container, and    *)
(* the violation carries the target, risk and remediation of the first     *)
(* rule, in catalog order, whose pattern matches the image.                *)
(***************************************************************************)
Matching(rs, image) == { m \in 1..Len(rs) : ReMatch(rs[m].pattern, image) }

Least(S) == CHOOSE m \in S : \A n \in S : m <= n

CountWhere(q, Test(_)) == Cardinality({ k \in 1..Len(q) : Test(q[k]) })

\* C17: per image of a reached document there are no more image violations
\* than containers, exactly as many as matched containers when the analysis
\* returned, and each carries the values of the first matching rule
C17_FirstMatchingRule ==
    pc = "scanned" =>
        \A p \in ManifestPaths : \A i \in 1..Len(fs[p].docs) :
            (Reached(p, i) /\ fs[p].docs[i].template) =>
                LET got == ViolationsOf(p, i, "image_compliance")
                    rs == LoadRules(rulesSrc).image_replacement
                    cs == fs[p].docs[i].containers
                IN  /\ \A k \in 1..Len(got) :
                          LET img == got[k].current_value
                              M == Matching(rs, img)
                          IN  /\ M # {}
                              /\ got[k].recommended_value = rs[Least(M)].target
                              /\ got[k].risk_level = rs[Least(M)].risk
                              /\ got[k].remediation_type = rs[Least(M)].remediation
                              /\ CountWhere(got, LAMBDA v : v.current_value = img)
                                   <= CountWhere(cs, LAMBDA c : c.hasImage /\ c.image = img)
                    /\ Analysed(p, i) =>
                          Len(got) = CountWhere(cs, LAMBDA c : c.hasImage
                                                   /\ Matching(rs, c.image) # {})

\* an image that two rules match is reported with the values of the first
C17_Witness ==
    /\ pc = "scanned"
    /\ \E k \in 1..Len(violations) :
          /\ violations[k].type = "image_compliance"
          /\ violations[k].current_value = ImgNg
          /\ Cardinality(Matching(LoadRules(rulesSrc).image_replacement, ImgNg)) = 2
          /\ violations[k].recommended_value = ImgNgPinned
          /\ violations[k].risk_level = "high"

(***************************************************************************)
(* C19.  When the rule source cannot be loaded the scan runs on the        *)
(* built-in rules, which have an entry for each family, and enforces them: *)
(* a workload with a container of image busybox:latest is not skipped and  *)
(* yields an image_compliance violation with the built-in rule's target    *)
(* and risk critical.                                                      *)
(***************************************************************************)
HasBusybox(d) ==
    /\ d.template
    /\ \A c \in 1..Len(d.containers) : d.containers[c].hasImage
    /\ \E c \in 1..Len(d.containers) : d.containers[c].image = BusyboxLatest

\* C19: on the built-in rules every reached workload that runs busybox:latest
\* has its violation
C19_FallbackRulesEnforced ==
    (pc = "scanned" /\ rulesSrc = "missing") =>
        /\ LoadRules(rulesSrc) = FallbackRules
        /\ Len(FallbackRules.image_replacement) >= 1
        /\ Len(FallbackRules.required_labels) >= 1
        /\ Len(FallbackRules.auto_fixes) >= 1
        /\ \A p \in ManifestPaths : \A i \in 1..Len(fs[p].docs) :
              (Reached(p, i) /\ HasBusybox(fs[p].docs[i])) =>
                  \E k \in 1..Len(violations) :
                      /\ violations[k].type = "image_compliance"
                      /\ violations[k].file = p
                      /\ violations[k].manifest_index = i - 1
                      /\ violations[k].current_value = BusyboxLatest
                      /\ violations[k].recommended_value = BusyboxSecure
                      /\ violations[k].risk_level = "critical"

(***************************************************************************)
(* C18.  The compliance score is 100.0 without violations; with T          *)
(* violations, A of them auto-fixable and F fixes it is                    *)
(* round(100 * (1 - (T - A) / (T + 1)) * F / A, 1) when A > 0 and          *)
(* round(100 * (1 - T / (T + 10)), 1) when A = 0.  When every violation is *)
(* auto-fixable and fixed, the score does not decrease as T grows and does *)
(* not exceed 100.                                                         *)
(***************************************************************************)
\* the nearest tenth of num / den, in tenths: of the two integers n around
\* 10 * num / den the one with the smaller distance |10 * num - n * den|, the
\* even one at equal distance
NearestTenth(num, den) ==
    LET Dist(n) == IF 10 * num >= n * den THEN 10 * num - n * den
                   ELSE n * den - 10 * num
        range == { (10 * num) \div den, (10 * num) \div den + 1 }
        near == { n \in range : \A m \in range : Dist(n) <= Dist(m) }
    IN  IF Cardinality(near) = 1 THEN CHOOSE n \in near : TRUE
        ELSE CHOOSE n \in near : n % 2 = 0

\* the claimed score for T violations, A auto-fixable, F fixes, in tenths
C18_Expected(T, A, F) ==
    IF T = 0 THEN 1000
    ELSE IF A > 0
    THEN \* 100 * (1 - (T - A)/(T + 1)) * F/A = 100 * (A + 1) * F / ((T + 1) * A)
         NearestTenth(100 * (A + 1) * F, (T + 1) * A)
    ELSE \* 100 * (1 - T/(T + 10)) = 1000 / (T + 10)
         NearestTenth(1000, T + 10)

\* C18: the score of a call is the claimed value, and with everything
\* auto-fixable and fixed it is no lower than for one violation fewer and no
\* higher than 100.0
C18_ComplianceScore ==
    compliance.op = "score" =>
        LET T == Len(compliance.violations)
            A == Cardinality({ k \in 1..T : compliance.violations[k].auto_fixable })
            F == Len(compliance.fixes)
        IN  /\ compliance.result = C18_Expected(T, A, F)
            /\ (T > 0 /\ A = T /\ F = T) =>
                  /\ compliance.result >= C18_Expected(T - 1, T - 1, T - 1)
                  /\ compliance.result <= 1000

\* three violations, two of them auto-fixable, one fixed: 100 * 3/4 * 1/2 = 37.5
C18_Witness ==
    /\ compliance.op = "score"
    /\ Len(compliance.violations) = 3
    /\ Len(SelectSeq(compliance.violations, IsAutoFixable)) = 2
    /\ Len(compliance.fixes) = 1
    /\ compliance.result = 375

(***************************************************************************)
(* C20.  After any sequence of image fixes of one file, all successful,    *)
(* the backup of the file holds the content the file had before the first  *)
(* of them.                                                                *)
(***************************************************************************)
\* every attempt auto_remediate has made so far in this batch succeeded
AllAttemptsSucceeded ==
    Len(applied) = Len(SelectSeq(SubSeq(batch, 1, idx - 1), IsAutoFixable))

\* C20: between two attempts and at the return, when no attempt has failed, the
\* backup of every file an image fix was applied to holds the file as it was
\* when auto_remediate was entered
C20_BackupHoldsOriginal ==
    (pc \in {"loop", "done"} /\ AllAttemptsSucceeded) =>
        \A k \in 1..Len(applied) :
            applied[k].fix_type = "image_replacement" =>
                fs[BackupPath(applied[k].file)] = entryFs[applied[k].file]


(***************************************************************************)
(* generate_compliance_report: scan_manifests, auto_remediate on the       *)
(* auto-fixable violations, then the report dict built from the two        *)
(* results.  The run is the scanner process above taken with the batch the *)
(* report passes; the dict is a function of the state at the return of     *)
(* auto_remediate.  The timestamp is left out.                             *)
(***************************************************************************)
\* auto_remediate has returned to generate_compliance_report
ReportReady == pc = "done" /\ batch = ReportBatch(violations)

IsNotAutoFixable(v) == ~v.auto_fixable

\* len(list(manifests_dir.rglob("*.yaml")))
ManifestCount(fsys, order) ==
    Cardinality({ k \in 1..Len(order) : order[k].suffix = ".yaml" /\ fsys[order[k]].exists })

ComplianceReport ==
    [ total_manifests_scanned |-> ManifestCount(fs, dirOrder),
      violations_found |-> Len(violations),
      auto_fixes_applied |-> Len(applied),
      compliance_score |-> CalculateComplianceScore(violations, applied),
      violation_details |-> violations,
      fix_details |-> applied,
      remaining_violations |-> SelectSeq(violations, IsNotAutoFixable) ]

(***************************************************************************)
(* C21.  Every violation of a report is in remaining_violations or has a   *)
(* Fix in fix_details, and violations_found is the sum of the two sizes,   *)
(* also when fix attempts fail.                                            *)
(***************************************************************************)
\* the violation at position i of violation_details has a Fix made for it
HasFix(i) == \E k \in 1..Len(fixedOf) : fixedOf[k] = violations[i]

\* C21: in a report, each violation is remaining or fixed, and violations_found
\* equals the size of remaining_violations plus the size of fix_details
C21_ReportAccountsForAll ==
    ReportReady =>
        LET r == ComplianceReport
        IN  /\ \A i \in 1..Len(r.violation_details) :
                  \/ r.violation_details[i] \in Range(r.remaining_violations)
                  \/ HasFix(i)
            /\ r.violations_found
                 = Len(r.remaining_violations) + Len(r.fix_details)

=============================================================================
